---------------------------- MODULE Spec2Model ----------------------------
(***************************************************************************)
(* A model of flask_jwt_extended/view_decorators.py: the four request      *)
(* guards (verify_jwt_in_request and its optional, fresh and refresh       *)
(* variants), the eight decorators built on them, the token locator        *)
(* (_decode_jwt_from_request and the four per-source extractors) and the   *)
(* identity loader (_load_user).                                           *)
(*                                                                         *)
(* One guard run is a sequence of steps; each step is one statement (or    *)
(* one loop iteration) of the source.  The collaborators imported from     *)
(* flask_jwt_extended.utils and the clock are the environment: their       *)
(* results are chosen when they are called.                                *)
(***************************************************************************)
EXTENDS Naturals, Sequences, FiniteSets, TLC

VARIABLES
    config,     \* flask_jwt_extended.config.config, read-only
    request,    \* flask.request of each in-flight request
    pc,         \* where each request's wrapper stands
    frame,      \* locals of _decode_jwt_from_request and of the guard
    ctx,        \* ctx_stack.top of each request: jwt, jwt_header, jwt_user
    exc,        \* the exception in flight or propagated, per request
    calls,      \* the sources read and collaborators called, in call order
    handler     \* the wrapped fn: whether it was invoked, and what it saw

vars == <<config, request, pc, frame, ctx, exc, calls, handler>>

(***************************************************************************)
(* Bounds of the model.                                                    *)
(***************************************************************************)
\* the longest config.token_location
MaxLocs == 2
\* the clock and the integer freshness claims range over 0..MaxTime
MaxTime == 1
\* the most comma-delimited fields of an Authorization header
MaxFields == 2
\* the most requests in flight at once
MaxReqs == 2

(***************************************************************************)
(* Values.                                                                 *)
(***************************************************************************)
\* Python's None
None == "None"

\* the requests in flight
Reqs == DOMAIN request

Range(s) == {s[i] : i \in 1..Len(s)}

\* the request types passed to _decode_jwt_from_request
RequestTypes == {"access", "refresh"}

\* the entries of JWT_TOKEN_LOCATION that _decode_jwt_from_request knows
Locations == {"headers", "cookies", "query_string", "json"}

\* the guard functions, by the decorators that await them
Policies == {"required", "optional", "fresh", "refresh"}

\* the decorators: a guard, and whether fn is awaited
Decorators == [policy : Policies, async : BOOLEAN]

\* RequestTypeOf, had the refresh guard been left passing 'access'
RequestTypeOfAlwaysAccess(policy) == "access"

\* the request_type each guard passes to _decode_jwt_from_request
RequestTypeOf(policy) == IF policy = "refresh" THEN "refresh" ELSE "access"

Methods == {"GET", "POST", "OPTIONS"}

\* encoded tokens a request may carry, one per place it may carry it in; the
\* last one does not decode
GoodTokens == {"tokH", "tokCA", "tokCR", "tokQ", "tokJA", "tokJR"}
BadToken == "tokBad"
Tokens == GoodTokens \cup {BadToken}

\* the value a token's csrf claim is bound to
CsrfValue == "csrf"

\* the exception classes
NoAuthorizationError == "NoAuthorizationError"
InvalidHeaderError == "InvalidHeaderError"
CSRFError == "CSRFError"
FreshTokenRequired == "FreshTokenRequired"
UserLoadError == "UserLoadError"
InvalidTokenTypeError == "WrongTokenError"
RevokedTokenError == "RevokedTokenError"
UserClaimsVerificationError == "UserClaimsVerificationError"
DecodeError == "JWTDecodeError"
IndexError == "IndexError"
CancelledError == "CancelledError"

NoExc == [kind |-> None, msg |-> ""]
Exc(kind, msg) == [kind |-> kind, msg |-> msg]

\* what a get_encoded_token_function returns or raises
Found(token, csrf) == [kind |-> "ok", token |-> token, csrf |-> csrf, msg |-> ""]
Raised(kind, msg) == [kind |-> kind, token |-> None, csrf |-> None, msg |-> msg]

\* a freshness claim: a bool, or an integer timestamp
FreshBool(b) == [isbool |-> TRUE, b |-> b, n |-> 0]
FreshInt(n) == [isbool |-> FALSE, b |-> FALSE, n |-> n]
FreshValues == {FreshBool(b) : b \in BOOLEAN} \cup {FreshInt(n) : n \in 0..MaxTime}

(***************************************************************************)
(* A header value is the list of its comma-delimited fields, each the list *)
(* of its whitespace-separated words: the string is the fields joined by   *)
(* ", " and re.split(r',\s*', s) gives the fields back.  <<>> is a missing *)
(* (or empty) header; a field <<>> is an empty or blank field.             *)
(***************************************************************************)
NoHeader == <<>>


\* Python's truth value of a string or None
Falsy(v) == v = None \/ v = ""

(***************************************************************************)
(* The configuration.  The names are those of the library's defaults, but  *)
(* for the CSRF header and form field, which get a name per request type.  *)
(***************************************************************************)
HeaderName == "Authorization"
QueryStringName == "jwt"
CookieNames == [access |-> "access_token_cookie", refresh |-> "refresh_token_cookie"]
CsrfHeaderNames == [access |-> "X-CSRF-TOKEN", refresh |-> "X-CSRF-REFRESH-TOKEN"]
CsrfFieldNames == [access |-> "csrf_token", refresh |-> "csrf_refresh_token"]
JsonKeys == [access |-> "access_token", refresh |-> "refresh_token"]

\* every sequence of 1..n locations
LocationLists(n) == UNION {[1..k -> Locations] : k \in 1..n}

Config(locs, header_type, csrf_protect, csrf_check_form, loader) ==
    [ token_location |-> locs,
      exempt_methods |-> {"OPTIONS"},
      header_name |-> HeaderName,
      header_type |-> header_type,
      access_cookie_name |-> CookieNames.access,
      refresh_cookie_name |-> CookieNames.refresh,
      csrf_protect |-> csrf_protect,
      csrf_request_methods |-> {"POST", "PUT", "PATCH", "DELETE"},
      csrf_check_form |-> csrf_check_form,
      access_csrf_header_name |-> CsrfHeaderNames.access,
      refresh_csrf_header_name |-> CsrfHeaderNames.refresh,
      access_csrf_field_name |-> CsrfFieldNames.access,
      refresh_csrf_field_name |-> CsrfFieldNames.refresh,
      query_string_name |-> QueryStringName,
      json_key |-> JsonKeys.access,
      refresh_json_key |-> JsonKeys.refresh,
      identity_claim_key |-> "identity",
      has_user_loader |-> loader ]

(***************************************************************************)
(* _decode_jwt_from_headers                                                *)
(***************************************************************************)
\* s.split() of the whole header value: the words of every field, a comma
\* staying with the word before it (or alone, after an empty field)
RECURSIVE SplitAll(_)
SplitAll(fields) ==
    IF fields = <<>> THEN <<>>
    ELSE LET f == Head(fields)
             last == Len(fields) = 1
             own == IF last THEN f
                    ELSE IF f = <<>> THEN <<",">>
                    ELSE [i \in 1..Len(f) |-> IF i = Len(f) THEN f[i] \o "," ELSE f[i]]
         IN  own \o SplitAll(Tail(fields))

\* [s for s in field_values if s.split()[0] == header_type]
FieldsOfType(fields, header_type) ==
    SelectSeq(fields, LAMBDA s : s[1] = header_type)

_decode_jwt_from_headers(cfg, req) ==
    LET header_name == cfg.header_name
        header_type == cfg.header_type
        auth_header == req.headers[header_name]
    IN
    IF auth_header = NoHeader
    THEN Raised(NoAuthorizationError, "Missing " \o header_name \o " Header")
    ELSE IF header_type # ""
    THEN IF \E i \in 1..Len(auth_header) : auth_header[i] = <<>>
         THEN Raised(IndexError, "list index out of range")
         ELSE LET jwt_header == FieldsOfType(auth_header, header_type)
              IN  IF Len(jwt_header) < 1 \/ Len(jwt_header[1]) # 2
                  THEN Raised(InvalidHeaderError,
                              "Bad " \o header_name \o " header. Expected value '"
                                 \o header_type \o " <JWT>'")
                  ELSE Found(jwt_header[1][2], None)
    ELSE LET parts == SplitAll(auth_header)
         IN  IF Len(parts) # 1
             THEN Raised(InvalidHeaderError,
                         "Bad " \o header_name \o " header. Expected value '<JWT>'")
             ELSE Found(parts[1], None)

(***************************************************************************)
(* _decode_jwt_from_cookies                                                *)
(***************************************************************************)
\* _decode_jwt_from_cookies, had the form been read whether or not
\* config.csrf_check_form is set
_decode_jwt_from_cookies_AlwaysForm(cfg, req, request_type) ==
    LET access == request_type = "access"
        cookie_key == IF access THEN cfg.access_cookie_name
                      ELSE cfg.refresh_cookie_name
        csrf_header_key == IF access THEN cfg.access_csrf_header_name
                           ELSE cfg.refresh_csrf_header_name
        csrf_field_key == IF access THEN cfg.access_csrf_field_name
                          ELSE cfg.refresh_csrf_field_name
        encoded_token == req.cookies[cookie_key]
        from_header == req.headers[csrf_header_key]
        csrf_value == IF Falsy(from_header) THEN req.form[csrf_field_key]
                      ELSE from_header
    IN
    IF Falsy(encoded_token)
    THEN Raised(NoAuthorizationError, "Missing cookie \"" \o cookie_key \o "\"")
    ELSE IF cfg.csrf_protect /\ req.method \in cfg.csrf_request_methods
    THEN IF Falsy(csrf_value)
         THEN Raised(CSRFError, "Missing CSRF token")
         ELSE Found(encoded_token, csrf_value)
    ELSE Found(encoded_token, None)

_decode_jwt_from_cookies(cfg, req, request_type) ==
    LET access == request_type = "access"
        cookie_key == IF access THEN cfg.access_cookie_name
                      ELSE cfg.refresh_cookie_name
        csrf_header_key == IF access THEN cfg.access_csrf_header_name
                           ELSE cfg.refresh_csrf_header_name
        csrf_field_key == IF access THEN cfg.access_csrf_field_name
                          ELSE cfg.refresh_csrf_field_name
        encoded_token == req.cookies[cookie_key]
        from_header == req.headers[csrf_header_key]
        csrf_value == IF Falsy(from_header) /\ cfg.csrf_check_form
                      THEN req.form[csrf_field_key]
                      ELSE from_header
    IN
    IF Falsy(encoded_token)
    THEN Raised(NoAuthorizationError, "Missing cookie \"" \o cookie_key \o "\"")
    ELSE IF cfg.csrf_protect /\ req.method \in cfg.csrf_request_methods
    THEN IF Falsy(csrf_value)
         THEN Raised(CSRFError, "Missing CSRF token")
         ELSE Found(encoded_token, csrf_value)
    ELSE Found(encoded_token, None)

(***************************************************************************)
(* _decode_jwt_from_query_string                                           *)
(***************************************************************************)
_decode_jwt_from_query_string(cfg, req) ==
    LET query_param == cfg.query_string_name
        encoded_token == req.args[query_param]
    IN
    IF Falsy(encoded_token)
    THEN Raised(NoAuthorizationError,
                "Missing \"" \o query_param \o "\" query paramater")
    ELSE Found(encoded_token, None)

(***************************************************************************)
(* _decode_jwt_from_json.  request.json is the parsed body; reading it      *)
(* raises BadRequest when request.bad_json.                                *)
(***************************************************************************)

_decode_jwt_from_json(cfg, req, request_type) ==
    LET token_key == IF request_type = "access" THEN cfg.json_key
                     ELSE cfg.refresh_json_key
    IN
    IF req.content_type # "application/json"
    THEN Raised(NoAuthorizationError,
                "Invalid content-type. Must be application/json.")
    ELSE IF req.bad_json \/ Falsy(req.json[token_key])
    THEN Raised(NoAuthorizationError,
                "Missing \"" \o token_key \o "\" key in json data.")
    ELSE Found(req.json[token_key], None)

\* the get_encoded_token_function that _decode_jwt_from_request appends for a location
get_encoded_token_function(location, cfg, req, request_type) ==
    CASE location = "cookies" -> _decode_jwt_from_cookies(cfg, req, request_type)
      [] location = "query_string" -> _decode_jwt_from_query_string(cfg, req)
      [] location = "headers" -> _decode_jwt_from_headers(cfg, req)
      [] location = "json" -> _decode_jwt_from_json(cfg, req, request_type)


(***************************************************************************)
(* The collaborators of flask_jwt_extended.utils.                          *)
(***************************************************************************)
\* an unset attribute of ctx_stack.top
NoClaims == [jti |-> None, type |-> None, fresh |-> FreshBool(FALSE), exp |-> 0,
             identity |-> None]
NoJwtHeader == [alg |-> None, of |-> None]

\* decode_token(encoded_token, csrf_token): what it raises, or "ok"
decode_token(encoded_token, csrf_token) ==
    IF encoded_token \notin GoodTokens THEN DecodeError
    ELSE IF csrf_token # None /\ csrf_token # CsrfValue THEN CSRFError
    ELSE "ok"

\* the expiry claim of an encoded token: before every time of the model for
\* the tokens of the header and the query string, after every one for the rest
ExpOf(encoded_token) == IF encoded_token \in {"tokH", "tokQ"} THEN 0 ELSE MaxTime + 1

\* the claims decode_token may return for an encoded token
ClaimsOf(encoded_token) ==
    { [jti |-> encoded_token, type |-> t, fresh |-> f, exp |-> ExpOf(encoded_token),
       identity |-> "id-" \o encoded_token] :
        t \in RequestTypes, f \in FreshValues }

get_unverified_jwt_headers(encoded_token) == [alg |-> "HS256", of |-> encoded_token]

\* verify_token_type(decoded_token, expected_type) passes
verify_token_type(decoded_token, expected_type) == decoded_token.type = expected_type

\* what user_loader(identity) may return
Users(identity) == {None, "user-" \o identity}

(***************************************************************************)
(* The guards.                                                             *)
(***************************************************************************)
\* NotExempt, had the guard left the test of the method out
NotExemptAlways(cfg, req) == TRUE

\* request.method not in config.exempt_methods
NotExempt(cfg, req) == req.method \notin cfg.exempt_methods

\* Swallows, had the except clause been a bare except
SwallowsEverything(policy, kind) == policy = "optional"

\* Swallows, had the except clause named CSRFError too
SwallowsCSRFToo(policy, kind) ==
    policy = "optional"
        /\ kind \in {NoAuthorizationError, InvalidHeaderError, CSRFError}

\* the except clause of verify_jwt_in_request_optional; the other guards have none
Swallows(policy, kind) ==
    policy = "optional" /\ kind \in {NoAuthorizationError, InvalidHeaderError}

\* NotFresh, had the timestamp been compared with <=
NotFreshInclusive(fresh, now) ==
    IF fresh.isbool THEN ~fresh.b ELSE fresh.n <= now

\* the freshness test of verify_fresh_jwt_in_request: TRUE when it raises
NotFresh(fresh, now) ==
    IF fresh.isbool THEN ~fresh.b ELSE fresh.n < now

\* AfterTypeCheck, had the revocation check been left out
AfterTypeCheckSkipsBlacklist == "publish"

\* the statement _decode_jwt_from_request runs after verify_token_type
AfterTypeCheck == "blacklist"

\* AfterPublish, had every guard been given the freshness test
AfterPublishAlwaysFresh(policy) == "fresh"

\* AfterPublish, had verify_jwt_refresh_token_in_request called
\* verify_token_claims as verify_jwt_in_request does
AfterPublishRefreshChecksClaims(policy) ==
    CASE policy = "fresh" -> "fresh"
      [] OTHER -> "claims"

\* AfterPublish, had verify_fresh_jwt_in_request been left a copy of
\* verify_jwt_in_request: the freshness test is never run
AfterPublishSkipsFresh(policy) ==
    CASE policy = "refresh" -> "load_user"
      [] OTHER -> "claims"

\* the statement a guard runs after binding jwt and jwt_header
AfterPublish(policy) ==
    CASE policy = "fresh" -> "fresh"
      [] policy = "refresh" -> "load_user"
      [] OTHER -> "claims"

PolicyOf(r) == request[r].view.policy

NewFrame == [i |-> 1, errors |-> <<>>, decoded_token |-> NoClaims,
             jwt_header |-> NoJwtHeader, now |-> 0, caught |-> None]
NewCtx == [jwt |-> NoClaims, jwt_header |-> NoJwtHeader, jwt_user |-> None]
NewHandler == [state |-> "idle", saw |-> NewCtx]

Goto(r, l) == pc' = [pc EXCEPT ![r] = l]
\* one entry of calls: what was read or called, and what it raised
Did(op, raised) == [op |-> op, raised |-> raised, ret |-> None]
DidReturn(op, ret) == [op |-> op, raised |-> None, ret |-> ret]
Call(r, op, raised) == calls' = [calls EXCEPT ![r] = Append(@, Did(op, raised))]

\* raise e inside the guard of request r, its locals being fr: swallowed by
\* the optional guard's except clause, or propagated out of the wrapper
RaiseFrom(r, e, fr) ==
    IF Swallows(PolicyOf(r), e.kind)
    THEN /\ Goto(r, "guard_ok")
         /\ frame' = [fr EXCEPT ![r].caught = e.kind]
         /\ exc' = exc
    ELSE /\ Goto(r, "raised")
         /\ exc' = [exc EXCEPT ![r] = e]
         /\ frame' = fr

Raise(r, e) == RaiseFrom(r, e, frame)

(***************************************************************************)
(* _decode_jwt_from_request                                                *)
(***************************************************************************)
\* Recoverable, had the except clause caught every exception
RecoverableAny(kind) == TRUE

\* Recoverable, had the except clause been that of the optional guard
RecoverableLikeOptional(kind) == kind \in {NoAuthorizationError, InvalidHeaderError}

\* except NoAuthorizationError: the loop goes on to the next location
Recoverable(kind) == kind = NoAuthorizationError

RECURSIVE Join(_, _)
Join(sep, strs) ==
    IF strs = <<>> THEN ""
    ELSE IF Len(strs) = 1 THEN strs[1]
    ELSE strs[1] \o sep \o Join(sep, Tail(strs))

\* NotFoundMessage, had the details been joined like the locations
NotFoundMessageCommaDetails(token_locations, errors) ==
    IF Len(token_locations) # 1
    THEN "Missing JWT in "
            \o Join(", ", SubSeq(token_locations, 1, Len(token_locations) - 1))
            \o " or " \o token_locations[Len(token_locations)]
            \o " (" \o Join(", ", errors) \o ")"
    ELSE errors[1]

\* the message of the NoAuthorizationError raised when no location gave a token
NotFoundMessage(token_locations, errors) ==
    IF Len(token_locations) # 1
    THEN "Missing JWT in "
            \o Join(", ", SubSeq(token_locations, 1, Len(token_locations) - 1))
            \o " or " \o token_locations[Len(token_locations)]
            \o " (" \o Join("; ", errors) \o ")"
    ELSE errors[1]

\* LocationAt, had the locations been tried last to first
LocationAtReversed(token_location, i) == token_location[Len(token_location) + 1 - i]

\* the location whose get_encoded_token_function the loop calls i-th
LocationAt(token_location, i) == token_location[i]

\* the wrapper awaits its guard; an exempt method ends the guard at once
WrapperCall(r) ==
    /\ pc[r] = "start"
    /\ IF NotExempt(config, request[r])
       THEN Goto(r, "locate")
       ELSE Goto(r, "guard_ok")
    /\ UNCHANGED <<config, request, frame, ctx, exc, calls, handler>>

\* one iteration of the loop over get_encoded_token_functions
LocateStep(r) ==
    /\ pc[r] = "locate"
    /\ frame[r].i <= Len(config.token_location)
    /\ LET location == LocationAt(config.token_location, frame[r].i)
           got == get_encoded_token_function(location, config, request[r],
                                             RequestTypeOf(PolicyOf(r)))
           decoded == decode_token(got.token, got.csrf)
           read == Did(location, IF got.kind = "ok" THEN None ELSE got.kind)
       IN
       IF got.kind = "ok"
       THEN /\ calls' = [calls EXCEPT ![r] =
                           @ \o << read, Did("decode_token",
                                             IF decoded = "ok" THEN None ELSE decoded) >>]
            /\ IF decoded = "ok"
               THEN /\ \E claims \in ClaimsOf(got.token) :
                          frame' = [frame EXCEPT
                                      ![r].decoded_token = claims,
                                      ![r].jwt_header = get_unverified_jwt_headers(got.token)]
                    /\ Goto(r, "verify_type")
                    /\ exc' = exc
               ELSE IF Recoverable(decoded)
               THEN /\ frame' = [frame EXCEPT ![r].errors = Append(@, "decode"),
                                              ![r].i = @ + 1]
                    /\ UNCHANGED <<pc, exc>>
               ELSE Raise(r, Exc(decoded, "decode"))
       ELSE /\ calls' = [calls EXCEPT ![r] = Append(@, read)]
            /\ IF Recoverable(got.kind)
               THEN /\ frame' = [frame EXCEPT ![r].errors = Append(@, got.msg),
                                              ![r].i = @ + 1]
                    /\ UNCHANGED <<pc, exc>>
               ELSE Raise(r, Exc(got.kind, got.msg))
    /\ UNCHANGED <<config, request, ctx, handler>>

\* if not decoded_token: no location gave a token
LocateExhausted(r) ==
    /\ pc[r] = "locate"
    /\ frame[r].i > Len(config.token_location)
    /\ Call(r, "not_found", NoAuthorizationError)
    /\ Raise(r, Exc(NoAuthorizationError,
                    NotFoundMessage(config.token_location, frame[r].errors)))
    /\ UNCHANGED <<config, request, ctx, handler>>

\* verify_token_type(decoded_token, expected_type=request_type)
VerifyTokenType(r) ==
    /\ pc[r] = "verify_type"
    /\ LET ok == verify_token_type(frame[r].decoded_token, RequestTypeOf(PolicyOf(r)))
       IN  /\ Call(r, "verify_token_type", IF ok THEN None ELSE InvalidTokenTypeError)
           /\ IF ok
              THEN Goto(r, AfterTypeCheck) /\ UNCHANGED <<frame, exc>>
              ELSE Raise(r, Exc(InvalidTokenTypeError, "Only tokens of the type are allowed"))
    /\ UNCHANGED <<config, request, ctx, handler>>

\* await verify_token_not_blacklisted(decoded_token, request_type): the call
BlacklistCall(r) ==
    /\ pc[r] = "blacklist"
    /\ Call(r, "verify_token_not_blacklisted", None)
    /\ Goto(r, "await_blacklist")
    /\ UNCHANGED <<config, request, frame, ctx, exc, handler>>

\* ... and its completion; then return decoded_token, jwt_header
BlacklistReturn(r) ==
    /\ pc[r] = "await_blacklist"
    /\ \E revoked \in BOOLEAN :
          IF revoked
          THEN /\ calls' = [calls EXCEPT ![r] =
                              [@ EXCEPT ![Len(calls[r])].raised = RevokedTokenError]]
               /\ Raise(r, Exc(RevokedTokenError, "Token has been revoked"))
          ELSE /\ Goto(r, "publish")
               /\ UNCHANGED <<frame, exc, calls>>
    /\ UNCHANGED <<config, request, ctx, handler>>


(***************************************************************************)
(* The rest of the guards, _load_user and the wrappers.                    *)
(***************************************************************************)
\* Publish, had _decode_jwt_from_request kept its result in a module-level
\* variable across the await: what is bound is what some request decoded
PublishShared(r) ==
    /\ pc[r] = "publish"
    /\ \E q \in Reqs :
          /\ frame[q].decoded_token # NoClaims
          /\ ctx' = [ctx EXCEPT ![r].jwt = frame[q].decoded_token,
                                ![r].jwt_header = frame[q].jwt_header]
    /\ Goto(r, AfterPublish(PolicyOf(r)))
    /\ UNCHANGED <<config, request, frame, exc, calls, handler>>

\* Publish, had the assignment to ctx_stack.top.jwt_header been left out
PublishClaimsOnly(r) ==
    /\ pc[r] = "publish"
    /\ ctx' = [ctx EXCEPT ![r].jwt = frame[r].decoded_token]
    /\ Goto(r, AfterPublish(PolicyOf(r)))
    /\ UNCHANGED <<config, request, frame, exc, calls, handler>>

\* Publish, had the assignment to ctx_stack.top.jwt been left out
PublishHeaderOnly(r) ==
    /\ pc[r] = "publish"
    /\ ctx' = [ctx EXCEPT ![r].jwt_header = frame[r].jwt_header]
    /\ Goto(r, AfterPublish(PolicyOf(r)))
    /\ UNCHANGED <<config, request, frame, exc, calls, handler>>

\* ctx_stack.top.jwt = jwt_data; ctx_stack.top.jwt_header = jwt_header
Publish(r) ==
    /\ pc[r] = "publish"
    /\ ctx' = [ctx EXCEPT ![r].jwt = frame[r].decoded_token,
                          ![r].jwt_header = frame[r].jwt_header]
    /\ Goto(r, AfterPublish(PolicyOf(r)))
    /\ UNCHANGED <<config, request, frame, exc, calls, handler>>

\* verify_fresh_jwt_in_request: fresh = jwt_data['fresh'] and its test
CheckFresh(r) ==
    /\ pc[r] = "fresh"
    /\ \E now \in 0..MaxTime :
          LET stale == NotFresh(frame[r].decoded_token.fresh, now)
              fr == [frame EXCEPT ![r].now = now]
          IN  /\ Call(r, "fresh", IF stale THEN FreshTokenRequired ELSE None)
              /\ IF stale
                 THEN RaiseFrom(r, Exc(FreshTokenRequired, "Fresh token required"), fr)
                 ELSE /\ Goto(r, "claims")
                      /\ frame' = fr
                      /\ exc' = exc
    /\ UNCHANGED <<config, request, ctx, handler>>

\* verify_token_claims(jwt_data)
VerifyTokenClaims(r) ==
    /\ pc[r] = "claims"
    /\ \E ok \in BOOLEAN :
          /\ Call(r, "verify_token_claims",
                  IF ok THEN None ELSE UserClaimsVerificationError)
          /\ IF ok
             THEN Goto(r, "load_user") /\ UNCHANGED <<frame, exc>>
             ELSE Raise(r, Exc(UserClaimsVerificationError,
                               "User claims verification failed"))
    /\ UNCHANGED <<config, request, ctx, handler>>

\* LoadUserOutcome, had a user of None been taken as no identity to bind
LoadUserOutcomeLenient(has_loader, user) ==
    IF has_loader /\ user # None THEN "bind" ELSE "skip"

\* what _load_user does with what user_loader returned: "skip" (no loader),
\* "raise" (UserLoadError) or "bind" (ctx_stack.top.jwt_user = user)
LoadUserOutcome(has_loader, user) ==
    IF has_loader
    THEN IF user = None THEN "raise" ELSE "bind"
    ELSE "skip"

\* _load_user(jwt_data[config.identity_claim_key])
_load_user(r) ==
    /\ pc[r] = "load_user"
    /\ LET identity == frame[r].decoded_token.identity
       IN  \E user \in IF config.has_user_loader THEN Users(identity) ELSE {None} :
              LET outcome == LoadUserOutcome(config.has_user_loader, user)
              IN  /\ IF config.has_user_loader
                     THEN calls' = [calls EXCEPT ![r] = Append(@,
                             [op |-> "user_loader", ret |-> user,
                              raised |-> IF outcome = "raise" THEN UserLoadError
                                         ELSE None])]
                     ELSE calls' = calls
                  /\ IF outcome = "raise"
                     THEN /\ Raise(r, Exc(UserLoadError,
                                          "user_loader returned None for " \o identity))
                          /\ ctx' = ctx
                     ELSE /\ ctx' = IF outcome = "bind"
                                    THEN [ctx EXCEPT ![r].jwt_user = user]
                                    ELSE ctx
                          /\ Goto(r, "guard_ok")
                          /\ UNCHANGED <<frame, exc>>
    /\ UNCHANGED <<config, request, handler>>

\* return fn(*args, **kwargs): fn runs to its end
CallHandler(r) ==
    /\ pc[r] = "guard_ok"
    /\ ~request[r].view.async
    /\ handler' = [handler EXCEPT ![r] = [state |-> "returned", saw |-> ctx[r]]]
    /\ Call(r, "fn", None)
    /\ Goto(r, "done")
    /\ UNCHANGED <<config, request, frame, ctx, exc>>

\* return await fn(*args, **kwargs): fn starts ...
AwaitHandler(r) ==
    /\ pc[r] = "guard_ok"
    /\ request[r].view.async
    /\ handler' = [handler EXCEPT ![r] = [state |-> "running", saw |-> ctx[r]]]
    /\ Call(r, "fn", None)
    /\ Goto(r, "await_fn")
    /\ UNCHANGED <<config, request, frame, ctx, exc>>

\* ... and completes
HandlerReturn(r) ==
    /\ pc[r] = "await_fn"
    /\ handler' = [handler EXCEPT ![r].state = "returned"]
    /\ Goto(r, "done")
    /\ UNCHANGED <<config, request, frame, ctx, exc, calls>>


(***************************************************************************)
(* The requests and configurations the model starts from.                  *)
(***************************************************************************)
TokenOrNone == Tokens \cup {None}

\* request.headers, by name
Headers(auth, csrf_access, csrf_refresh) ==
    (HeaderName :> auth) @@ (CsrfHeaderNames.access :> csrf_access)
        @@ (CsrfHeaderNames.refresh :> csrf_refresh)

\* a request with nothing in it
EmptyRequest(method, view) ==
    [ method |-> method,
      view |-> view,
      headers |-> Headers(NoHeader, None, None),
      cookies |-> (CookieNames.access :> None) @@ (CookieNames.refresh :> None),
      form |-> (CsrfFieldNames.access :> None) @@ (CsrfFieldNames.refresh :> None),
      args |-> (QueryStringName :> None),
      content_type |-> "text/plain",
      bad_json |-> FALSE,
      json |-> (JsonKeys.access :> None) @@ (JsonKeys.refresh :> None) ]

\* the Authorization headers of the requests
AuthHeaders ==
    { NoHeader,
      << <<"Bearer", "tokH">> >>,
      << <<"tokH">> >> }

\* what a request may hold in each location: the fields of the request it sets
Holds(location) ==
    CASE location = "headers" ->
            { [headers |-> Headers(h, None, None)] : h \in AuthHeaders }
      [] location = "cookies" ->
            { [cookies |-> (CookieNames.access :> o[1]) @@ (CookieNames.refresh :> o[2]),
               headers |-> Headers(NoHeader, o[3], o[3])] :
                 o \in { <<None, None, None>>, <<"tokCA", "tokCR", None>>,
                         <<"tokCA", None, CsrfValue>>, <<None, "tokCR", CsrfValue>> } }
      [] location = "query_string" ->
            { [args |-> (QueryStringName :> t)] : t \in {None, "tokQ", BadToken} }
      [] location = "json" ->
            { [content_type |-> "text/plain", bad_json |-> FALSE],
              [content_type |-> "application/json", bad_json |-> TRUE],
              [content_type |-> "application/json",
               json |-> (JsonKeys.access :> "tokJA") @@ (JsonKeys.refresh :> "tokJR")] }

\* req with the fields of part set; the headers of both are merged
With(req, part) ==
    [f \in DOMAIN req |->
        IF f \notin DOMAIN part THEN req[f]
        ELSE IF f = "headers"
        THEN [h \in DOMAIN req.headers |->
                 IF h = HeaderName
                 THEN IF part.headers[h] = NoHeader THEN req.headers[h]
                      ELSE part.headers[h]
                 ELSE IF part.headers[h] = None THEN req.headers[h]
                      ELSE part.headers[h]]
        ELSE part[f]]

\* the requests that hold something only in the locations of locs
RECURSIVE RequestsOver(_, _)
RequestsOver(locs, base) ==
    IF locs = {} THEN {base}
    ELSE LET l == CHOOSE x \in locs : TRUE
         IN  UNION { RequestsOver(locs \ {l}, With(base, part)) : part \in Holds(l) }

\* the configurations: CSRF protection as the library's defaults set it, and
\* the header type varied where the headers are a token location
Configs ==
    UNION { { Config(locs, header_type, TRUE, FALSE, loader) :
                header_type \in IF "headers" \in Range(locs) THEN {"Bearer", ""}
                                ELSE {"Bearer"},
                loader \in BOOLEAN } :
            locs \in LocationLists(MaxLocs) }

\* the methods of the requests: POST, which the CSRF rules of the cookies
\* tell from GET, where the cookies are a token location
MethodsFor(cfg) ==
    IF "cookies" \in Range(cfg.token_location) THEN Methods ELSE Methods \ {"POST"}

Init ==
    /\ config \in Configs
    /\ request \in [{1} -> UNION { RequestsOver(Range(config.token_location),
                                                 EmptyRequest(m, v)) :
                                      m \in MethodsFor(config), v \in Decorators }]
    /\ pc = [r \in Reqs |-> "start"]
    /\ frame = [r \in Reqs |-> NewFrame]
    /\ ctx = [r \in Reqs |-> NewCtx]
    /\ exc = [r \in Reqs |-> NoExc]
    /\ calls = [r \in Reqs |-> <<>>]
    /\ handler = [r \in Reqs |-> NewHandler]

Next ==
    \E r \in 1..MaxReqs :
        \/ r \in Reqs /\ WrapperCall(r)
        \/ r \in Reqs /\ LocateStep(r)
        \/ r \in Reqs /\ LocateExhausted(r)
        \/ r \in Reqs /\ VerifyTokenType(r)
        \/ r \in Reqs /\ BlacklistCall(r)
        \/ r \in Reqs /\ BlacklistReturn(r)
        \/ r \in Reqs /\ Publish(r)
        \/ r \in Reqs /\ CheckFresh(r)
        \/ r \in Reqs /\ VerifyTokenClaims(r)
        \/ r \in Reqs /\ _load_user(r)
        \/ r \in Reqs /\ CallHandler(r)
        \/ r \in Reqs /\ AwaitHandler(r)
        \/ r \in Reqs /\ HandlerReturn(r)

Spec == Init /\ [][Next]_vars

(***************************************************************************)
(* The cookie source alone: CSRF protection and the form fallback on and   *)
(* off, every state of the token cookie, the CSRF header and the CSRF form *)
(* field of the guard's request type, and those of the other request type  *)
(* all missing or all set to values of their own.                          *)
(***************************************************************************)
OtherType(request_type) == IF request_type = "access" THEN "refresh" ELSE "access"

\* what a cookie, a header or a form field may hold: nothing, the empty
\* string, or the value v
Maybe(v) == {None, "", v}

CookieTokens == [access |-> "tokCA", refresh |-> "tokCR"]

\* the requests of view under method whose guard reads the cookie source
CookieRequests(method, view) ==
    LET t == RequestTypeOf(view.policy)
        o == OtherType(t)
    IN  { [ EmptyRequest(method, view) EXCEPT
              !.cookies = (CookieNames[t] :> cookie) @@ (CookieNames[o] :> other[1]),
              !.headers = (HeaderName :> NoHeader) @@ (CsrfHeaderNames[t] :> header)
                             @@ (CsrfHeaderNames[o] :> other[2]),
              !.form = (CsrfFieldNames[t] :> field) @@ (CsrfFieldNames[o] :> other[3]) ] :
            cookie \in Maybe(CookieTokens[t]),
            header \in Maybe(CsrfValue),
            field \in Maybe(CsrfValue) \cup {"csrf-in-form"},
            other \in { <<None, None, None>>,
                        <<CookieTokens[o], "csrf-of-other", "csrf-in-form-of-other">> } }

CookieConfigs ==
    { Config(<<"cookies">>, "Bearer", csrf_protect, csrf_check_form, FALSE) :
        csrf_protect \in BOOLEAN, csrf_check_form \in BOOLEAN }

InitCookies ==
    /\ config \in CookieConfigs
    /\ request \in [{1} -> UNION { CookieRequests(m, v) :
                                      m \in {"GET", "POST"}, v \in Decorators }]
    /\ pc = [r \in Reqs |-> "start"]
    /\ frame = [r \in Reqs |-> NewFrame]
    /\ ctx = [r \in Reqs |-> NewCtx]
    /\ exc = [r \in Reqs |-> NoExc]
    /\ calls = [r \in Reqs |-> <<>>]
    /\ handler = [r \in Reqs |-> NewHandler]

SpecCookies == InitCookies /\ [][Next]_vars

(***************************************************************************)
(* The header source alone, a header type configured: Authorization        *)
(* headers of up to MaxFields comma-delimited fields, the first of them    *)
(* not empty; an empty field is what a trailing or a doubled comma leaves. *)
(***************************************************************************)
\* the fields of the headers: empty (as after a trailing comma), the type
\* alone, the type and a token, three words, and another scheme
HeaderFields ==
    { <<>>, <<"Bearer">>, <<"Bearer", "tokH">>, <<"Bearer", "tokQ">>,
      <<"Bearer", "tokH", "tokQ">>, <<"Basic", "tokJA">> }

TypedHeaders ==
    {NoHeader} \cup
        { h \in UNION {[1..k -> HeaderFields] : k \in 1..MaxFields} : h[1] # <<>> }

InitHeaders ==
    /\ config = Config(<<"headers">>, "Bearer", TRUE, FALSE, FALSE)
    /\ request \in [{1} -> { [EmptyRequest("GET", v) EXCEPT
                                 !.headers = Headers(h, None, None)] :
                              v \in Decorators, h \in TypedHeaders }]
    /\ pc = [r \in Reqs |-> "start"]
    /\ frame = [r \in Reqs |-> NewFrame]
    /\ ctx = [r \in Reqs |-> NewCtx]
    /\ exc = [r \in Reqs |-> NoExc]
    /\ calls = [r \in Reqs |-> <<>>]
    /\ handler = [r \in Reqs |-> NewHandler]

SpecHeaders == InitHeaders /\ [][Next]_vars

(***************************************************************************)
(* Several requests in flight, and the host cancelling them.  Each request *)
(* is a task of its own: its guard and its handler are suspended at their  *)
(* awaits, where the other requests run and where the host may cancel the  *)
(* task.  ctx_stack.top, evaluated in a task, is the context of that       *)
(* task's request.                                                         *)
(***************************************************************************)
\* the host cancels request r while its guard awaits
\* verify_token_not_blacklisted: CancelledError is raised at the await
Cancel(r) ==
    /\ pc[r] = "await_blacklist"
    /\ calls' = [calls EXCEPT ![r] =
                    [@ EXCEPT ![Len(calls[r])].raised = CancelledError]]
    /\ Raise(r, Exc(CancelledError, ""))
    /\ UNCHANGED <<config, request, ctx, handler>>

\* the host cancels request r while its wrapper awaits fn
CancelHandler(r) ==
    /\ pc[r] = "await_fn"
    /\ handler' = [handler EXCEPT ![r].state = "cancelled"]
    /\ Goto(r, "raised")
    /\ exc' = [exc EXCEPT ![r] = Exc(CancelledError, "")]
    /\ UNCHANGED <<config, request, frame, ctx, calls>>

\* the token each request in flight carries in its Authorization header
TokenOfRequest == <<"tokH", "tokQ", "tokJA">>

\* the requests in flight: the first under async_fresh_jwt_required or under
\* jwt_optional, there with a token or with none; the others under
\* async_jwt_required
InFlightRequests(i) ==
    LET with == [EmptyRequest("GET", [policy |-> "required", async |-> TRUE]) EXCEPT
                    !.headers = Headers(<< <<"Bearer", TokenOfRequest[i]>> >>, None, None)]
    IN  IF i = 1
        THEN { [with EXCEPT !.view = [policy |-> "fresh", async |-> TRUE]],
               [with EXCEPT !.view = [policy |-> "optional", async |-> FALSE]],
               EmptyRequest("GET", [policy |-> "optional", async |-> FALSE]) }
        ELSE { with }

InitInFlight ==
    /\ config = Config(<<"headers">>, "Bearer", TRUE, FALSE, TRUE)
    /\ request \in { q \in [1..MaxReqs -> UNION {InFlightRequests(i) : i \in 1..MaxReqs}] :
                        \A i \in 1..MaxReqs : q[i] \in InFlightRequests(i) }
    /\ pc = [r \in Reqs |-> "start"]
    /\ frame = [r \in Reqs |-> NewFrame]
    /\ ctx = [r \in Reqs |-> NewCtx]
    /\ exc = [r \in Reqs |-> NoExc]
    /\ calls = [r \in Reqs |-> <<>>]
    /\ handler = [r \in Reqs |-> NewHandler]

NextInFlight ==
    \/ Next
    \/ \E r \in 1..MaxReqs : r \in Reqs /\ Cancel(r)
    \/ \E r \in 1..MaxReqs : r \in Reqs /\ CancelHandler(r)

SpecInFlight == InitInFlight /\ [][NextInFlight]_vars


(***************************************************************************)
(* What the claims are stated on.                                          *)
(***************************************************************************)
\* the request's method is not in the configured exempt-method set
NonExemptRequest(r) == request[r].method \notin config.exempt_methods

\* the wrapped handler of request r has been invoked
Invoked(r) == handler[r].state # "idle"

\* entry e of calls is a token source being read
IsRead(e) == e.op \in Locations

\* entry e of calls is a stage failing: anything raised, but for a source
\* raising NoAuthorizationError, which the locator takes as "not here"
Fails(e) == e.raised # None /\ ~(IsRead(e) /\ e.raised = NoAuthorizationError)

\* the errors the optional guard is said to swallow
SaidSwallowed(r, kind) ==
    request[r].view.policy = "optional"
        /\ kind \in {NoAuthorizationError, InvalidHeaderError}

\* the stages that follow a source yielding a candidate, per policy
StagesAfterLocate(r) ==
    LET policy == request[r].view.policy
    IN  <<"decode_token", "verify_token_type", "verify_token_not_blacklisted">>
           \o (IF policy = "fresh" THEN <<"fresh">> ELSE <<>>)
           \o (IF policy # "refresh" THEN <<"verify_token_claims">> ELSE <<>>)
           \o (IF config.has_user_loader THEN <<"user_loader">> ELSE <<>>)

\* entries 1..n of calls[r] are a whole guard pipeline that raised nothing:
\* sources read in vain, one source yielding a candidate, then every stage
CompletePipeline(r, n) ==
    LET cs == calls[r]
        stages == StagesAfterLocate(r)
        k == n - Len(stages)
    IN  /\ k >= 1
        /\ \A i \in 1..k : IsRead(cs[i])
        /\ \A i \in 1..(k - 1) : cs[i].raised = NoAuthorizationError
        /\ \A i \in k..n : cs[i].raised = None
        /\ \A j \in 1..Len(stages) : cs[k + j].op = stages[j]

(***************************************************************************)
(* C1: for each of the eight decorators and every request whose method is  *)
(* not exempt, the handler is invoked only after the guard's whole         *)
(* pipeline (locate, decode, type check, revocation check, the freshness   *)
(* and claims checks of the policy, identity load) has completed without   *)
(* error, or after the optional guard swallowed the error; and once a      *)
(* stage has raised an error the policy does not swallow, the handler is   *)
(* not invoked and that error is the one the caller gets.                  *)
(***************************************************************************)
C1_HandlerOnlyAfterGuard ==
    \A r \in Reqs :
        NonExemptRequest(r) =>
            LET cs == calls[r]
                n == Len(cs)
            IN  /\ Invoked(r) <=> (n >= 1 /\ cs[n].op = "fn")
                /\ \A i \in 1..n :
                      cs[i].op = "fn" =>
                          /\ i = n
                          /\ \/ CompletePipeline(r, n - 1)
                             \/ /\ n >= 2
                                /\ Fails(cs[n - 1])
                                /\ SaidSwallowed(r, cs[n - 1].raised)
                /\ \A i \in 1..n :
                      (Fails(cs[i]) /\ ~SaidSwallowed(r, cs[i].raised)) =>
                          /\ i = n
                          /\ ~Invoked(r)
                          /\ pc[r] = "raised"
                          /\ exc[r].kind = cs[i].raised

\* a fresh guard read two sources, its whole pipeline passed, and the
\* awaited handler returned
C1_Witness ==
    \E r \in Reqs :
        /\ NonExemptRequest(r)
        /\ request[r].view = [policy |-> "fresh", async |-> TRUE]
        /\ config.has_user_loader
        /\ Len(config.token_location) = 2
        /\ Len(calls[r]) = 9
        /\ handler[r].state = "returned"


\* calls[r] has an entry for op that raised nothing
Passed(r, op) == \E i \in 1..Len(calls[r]) : calls[r][i] = Did(op, None)

\* the guard of request r ended by raising one of the errors of kinds
EndedIn(r, kinds) == pc[r] = "raised" /\ exc[r].kind \in kinds

\* the errors raised after _decode_jwt_from_request has returned
LateErrors == {FreshTokenRequired, UserClaimsVerificationError, UserLoadError}

(***************************************************************************)
(* C2, as claimed: the request context holds decoded claims or header      *)
(* metadata only if the full guard pipeline has succeeded, so a guard run  *)
(* that ends in FreshTokenRequired, UserClaimsVerificationError or         *)
(* UserLoadError leaves the context with no claims, no header metadata     *)
(* and no principal.                                                       *)
(***************************************************************************)
C2_AsClaimed ==
    \A r \in Reqs :
        EndedIn(r, LateErrors) =>
            /\ ctx[r].jwt = NoClaims
            /\ ctx[r].jwt_header = NoJwtHeader
            /\ ctx[r].jwt_user = None

(***************************************************************************)
(* C2, amended: the request context holds decoded claims or header         *)
(* metadata only if locate, decode, the type check and the revocation      *)
(* check have succeeded for that request, and they are the decoded         *)
(* token's; they are bound before the freshness check, the claims check    *)
(* and the identity load, so a guard run that ends in FreshTokenRequired,  *)
(* UserClaimsVerificationError or UserLoadError leaves the context with    *)
(* the token's claims and header metadata, and no principal.               *)
(***************************************************************************)
C2_BoundAfterRevocationCheck ==
    \A r \in Reqs :
        /\ (ctx[r].jwt # NoClaims \/ ctx[r].jwt_header # NoJwtHeader) =>
              /\ Passed(r, "decode_token")
              /\ Passed(r, "verify_token_type")
              /\ Passed(r, "verify_token_not_blacklisted")
              /\ pc[r] # "await_blacklist"
              /\ ctx[r].jwt = frame[r].decoded_token
              /\ ctx[r].jwt_header = frame[r].jwt_header
        /\ EndedIn(r, LateErrors) =>
              /\ ctx[r].jwt = frame[r].decoded_token /\ ctx[r].jwt # NoClaims
              /\ ctx[r].jwt_header = frame[r].jwt_header
              /\ ctx[r].jwt_header # NoJwtHeader
              /\ ctx[r].jwt_user = None

\* a guard run ended in UserClaimsVerificationError with the claims bound
C2_Witness ==
    \E r \in Reqs :
        /\ EndedIn(r, {UserClaimsVerificationError})
        /\ ctx[r].jwt.jti \in GoodTokens
        /\ ctx[r].jwt_header.of = ctx[r].jwt.jti

(***************************************************************************)
(* C3, as claimed: the checks run in the order type, freshness, structural *)
(* claims, revocation, so the revocation capability is consulted only      *)
(* after the type check, the freshness check (fresh guard) and the         *)
(* structural-claims check have passed.                                    *)
(***************************************************************************)
C3_AsClaimed ==
    \A r \in Reqs :
        (\E i \in 1..Len(calls[r]) : calls[r][i].op = "verify_token_not_blacklisted") =>
            /\ Passed(r, "verify_token_type")
            /\ request[r].view.policy = "fresh" => Passed(r, "fresh")
            /\ request[r].view.policy # "refresh" => Passed(r, "verify_token_claims")

(***************************************************************************)
(* C3, amended: the checks are short-circuiting and run in the order type, *)
(* revocation, freshness (fresh guard), structural claims: the revocation  *)
(* capability is consulted as soon as the type check has passed, and the   *)
(* freshness and structural-claims checks run only after it has reported   *)
(* the token not revoked; a token that fails freshness or structural       *)
(* claims has had the revocation capability called for it.                 *)
(***************************************************************************)
C3_RevocationBeforeFreshness ==
    \A r \in Reqs :
        LET cs == calls[r]
            n == Len(cs)
        IN  /\ \A i \in 1..n :
                  cs[i].op = "verify_token_not_blacklisted" =>
                      i > 1 /\ cs[i - 1] = Did("verify_token_type", None)
            /\ \A i \in 1..n :
                  cs[i].op = "fresh" =>
                      i > 1 /\ cs[i - 1] = Did("verify_token_not_blacklisted", None)
            /\ \A i \in 1..n :
                  cs[i].op = "verify_token_claims" =>
                      /\ i > 1
                      /\ cs[i - 1] = Did(IF request[r].view.policy = "fresh"
                                         THEN "fresh"
                                         ELSE "verify_token_not_blacklisted", None)
            /\ \A i \in 1..n :
                  (cs[i].op \in {"verify_token_type", "verify_token_not_blacklisted",
                                 "fresh", "verify_token_claims"}
                      /\ cs[i].raised # None) => i = n

\* a stale token was turned down by the fresh guard after the revocation
\* capability had been called for it
C3_Witness ==
    \E r \in Reqs :
        /\ EndedIn(r, {FreshTokenRequired})
        /\ Passed(r, "verify_token_not_blacklisted")
        /\ ~Passed(r, "verify_token_claims")


\* what the source at location holds for request r: the candidate its
\* extractor returns, or the error it raises
Extracted(r, location) ==
    LET request_type == IF request[r].view.policy = "refresh" THEN "refresh" ELSE "access"
    IN  CASE location = "headers" -> _decode_jwt_from_headers(config, request[r])
          [] location = "cookies" -> _decode_jwt_from_cookies(config, request[r], request_type)
          [] location = "query_string" -> _decode_jwt_from_query_string(config, request[r])
          [] location = "json" -> _decode_jwt_from_json(config, request[r], request_type)

\* the source at location holds a candidate that decodes
HoldsValidToken(r, location) ==
    LET got == Extracted(r, location)
    IN  got.kind = "ok" /\ decode_token(got.token, got.csrf) = "ok"

\* the sources read so far, in the order read
RECURSIVE ReadsIn(_)
ReadsIn(cs) ==
    IF cs = <<>> THEN <<>>
    ELSE (IF IsRead(cs[1]) THEN <<cs[1].op>> ELSE <<>>) \o ReadsIn(Tail(cs))

(***************************************************************************)
(* C4: the token the guard decodes and binds is the one of the earliest    *)
(* source, in configured order, whose extraction does not raise            *)
(* NoAuthorizationError and whose candidate decodes; the sources up to it  *)
(* are the only ones read, so no source after it is read, even if it also  *)
(* holds a valid token.                                                    *)
(***************************************************************************)
C4_EarliestSourceWins ==
    \A r \in Reqs :
        LET locs == config.token_location
            valid == {i \in 1..Len(locs) : HoldsValidToken(r, locs[i])}
        IN  frame[r].decoded_token # NoClaims =>
               /\ valid # {}
               /\ LET k == CHOOSE i \in valid : \A j \in valid : i <= j
                      token == Extracted(r, locs[k]).token
                  IN  /\ frame[r].decoded_token.jti = token
                      /\ frame[r].jwt_header.of = token
                      /\ ctx[r].jwt # NoClaims => ctx[r].jwt.jti = token
                      /\ ctx[r].jwt_header # NoJwtHeader => ctx[r].jwt_header.of = token
                      /\ ReadsIn(calls[r]) = SubSeq(locs, 1, k)

\* the first of two sources gave the token that was bound; the second, which
\* holds a valid token too, was not read, and the handler returned
C4_Witness ==
    \E r \in Reqs :
        /\ Len(config.token_location) = 2
        /\ config.token_location[1] # config.token_location[2]
        /\ HoldsValidToken(r, config.token_location[1])
        /\ HoldsValidToken(r, config.token_location[2])
        /\ ctx[r].jwt.jti = Extracted(r, config.token_location[1]).token
        /\ ReadsIn(calls[r]) = <<config.token_location[1]>>
        /\ handler[r].state = "returned"

(***************************************************************************)
(* C5: in the locator loop NoAuthorizationError is the only error after    *)
(* which the locator goes on to the next configured source; any other      *)
(* error raised by a source or by decoding its candidate ends the locator  *)
(* at once with that error: no later source is read and no token is        *)
(* decoded or bound, even if a later source holds a valid token.           *)
(***************************************************************************)
C5_OnlyNoAuthorizationRecovers ==
    \A r \in Reqs :
        LET cs == calls[r]
            n == Len(cs)
            locs == config.token_location
            reads == ReadsIn(cs)
        IN  /\ Len(reads) <= Len(locs) /\ reads = SubSeq(locs, 1, Len(reads))
            /\ \A i \in 1..n :
                  (IsRead(cs[i]) /\ i < n /\ IsRead(cs[i + 1])) =>
                      cs[i].raised = NoAuthorizationError
            /\ \A i \in 1..n :
                  ((IsRead(cs[i]) \/ cs[i].op = "decode_token")
                       /\ cs[i].raised \notin {None, NoAuthorizationError}) =>
                      /\ \A j \in (i + 1)..n : cs[j].op = "fn"
                      /\ frame[r].decoded_token = NoClaims
                      /\ ctx[r] = NewCtx
                      /\ ~SaidSwallowed(r, cs[i].raised) =>
                            (i = n /\ pc[r] = "raised" /\ exc[r].kind = cs[i].raised)

\* a malformed header ended the guard with InvalidHeaderError although the
\* next source, never read, holds a valid token
C5_Witness ==
    \E r \in Reqs :
        /\ config.token_location = <<"headers", "cookies">>
        /\ Extracted(r, "headers").kind = InvalidHeaderError
        /\ HoldsValidToken(r, "cookies")
        /\ EndedIn(r, {InvalidHeaderError})
        /\ ReadsIn(calls[r]) = <<"headers">>


\* the guard of request r has returned to its wrapper without raising
GuardReturned(r) == pc[r] \in {"guard_ok", "await_fn", "done"} /\ exc[r] = NoExc

(***************************************************************************)
(* C6: under the optional guard on a non-exempt request the handler is     *)
(* invoked if and only if the pipeline succeeds or fails with              *)
(* NoAuthorizationError or InvalidHeaderError; every other error           *)
(* propagates to the caller and the handler is not invoked.                *)
(***************************************************************************)
C6_OptionalSwallowsOnlyTwo ==
    \A r \in Reqs :
        (request[r].view.policy = "optional" /\ NonExemptRequest(r)) =>
            LET cs == calls[r]
                n == Len(cs)
                swallowed == {NoAuthorizationError, InvalidHeaderError}
            IN  /\ \A i \in 1..n :
                      (Fails(cs[i]) /\ cs[i].raised \notin swallowed) =>
                          /\ ~Invoked(r)
                          /\ pc[r] = "raised"
                          /\ exc[r].kind = cs[i].raised
                /\ \A i \in 1..n :
                      (Fails(cs[i]) /\ cs[i].raised \in swallowed) => GuardReturned(r)
                /\ Invoked(r) =>
                      \/ CompletePipeline(r, n - 1)
                      \/ n >= 2 /\ Fails(cs[n - 1]) /\ cs[n - 1].raised \in swallowed
                /\ pc[r] = "done" <=> handler[r].state = "returned"
                /\ pc[r] = "raised" =>
                      /\ n >= 1 /\ Fails(cs[n])
                      /\ exc[r].kind = cs[n].raised
                      /\ exc[r].kind \notin swallowed

\* the optional guard let a CSRFError through to the caller
C6_Witness ==
    \E r \in Reqs :
        /\ request[r].view.policy = "optional"
        /\ EndedIn(r, {CSRFError})
        /\ ~Invoked(r)

(***************************************************************************)
(* C7: whenever the optional guard swallows NoAuthorizationError or        *)
(* InvalidHeaderError the handler runs with the request context as the     *)
(* guard found it: no claims, no header metadata, no principal.  So it is  *)
(* when the header source raised InvalidHeaderError and a later configured *)
(* source holds a valid token: that token is not used.                     *)
(***************************************************************************)
C7_SwallowedMeansUnauthenticated ==
    \A r \in Reqs :
        (/\ request[r].view.policy = "optional"
         /\ \E i \in 1..Len(calls[r]) :
               \/ calls[r][i].raised = InvalidHeaderError
               \/ calls[r][i] = Did("not_found", NoAuthorizationError)) =>
            /\ GuardReturned(r)
            /\ ctx[r] = NewCtx
            /\ Invoked(r) => handler[r].saw = NewCtx

\* the optional guard swallowed the InvalidHeaderError of a malformed header
\* and the handler ran unauthenticated, a valid cookie notwithstanding
C7_Witness ==
    \E r \in Reqs :
        /\ request[r].view.policy = "optional"
        /\ config.token_location = <<"headers", "cookies">>
        /\ Extracted(r, "headers").kind = InvalidHeaderError
        /\ HoldsValidToken(r, "cookies")
        /\ frame[r].caught = InvalidHeaderError
        /\ handler[r].state = "returned"
        /\ handler[r].saw = NewCtx

(***************************************************************************)
(* C8: when the request method is in the configured exempt-method set,     *)
(* under each of the four policies the guard completes without error and   *)
(* the handler is invoked: no token source is read, the decode, revocation *)
(* and identity-loader collaborators are not called, and the request       *)
(* context is left with no claims, no header metadata and no principal.    *)
(***************************************************************************)
C8_ExemptMethodSkipsGuard ==
    \A r \in Reqs :
        request[r].method \in config.exempt_methods =>
            /\ \A i \in 1..Len(calls[r]) : calls[r][i].op = "fn"
            /\ ctx[r] = NewCtx
            /\ frame[r] = NewFrame
            /\ exc[r] = NoExc
            /\ pc[r] \in {"start", "guard_ok", "await_fn", "done"}
            /\ Invoked(r) => handler[r].saw = NewCtx

\* a fresh-guarded handler returned for an exempt method, the valid token
\* in the request's header unread
C8_Witness ==
    \E r \in Reqs :
        /\ request[r].method \in config.exempt_methods
        /\ request[r].view.policy = "fresh"
        /\ config.token_location = <<"headers">>
        /\ HoldsValidToken(r, "headers")
        /\ handler[r].state = "returned"
        /\ calls[r] = <<Did("fn", None)>>

(***************************************************************************)
(* C9: the request context's principal is set if and only if an identity   *)
(* loader is configured and it returned a non-null value for the token's   *)
(* identity claim; a configured loader returning null makes the guard fail *)
(* with UserLoadError and the handler is not invoked; with no loader       *)
(* configured the loader is not called and the principal stays unset.      *)
(***************************************************************************)
C9_PrincipalIffLoaded ==
    \A r \in Reqs :
        LET cs == calls[r]
            n == Len(cs)
            loads == {i \in 1..n : cs[i].op = "user_loader"}
        IN  /\ ctx[r].jwt_user # None <=>
                  (config.has_user_loader /\ \E i \in loads : cs[i].ret # None)
            /\ ctx[r].jwt_user # None =>
                  /\ ctx[r].jwt_user \in Users(ctx[r].jwt.identity)
                  /\ \E i \in loads : cs[i].ret = ctx[r].jwt_user
            /\ \A i \in loads :
                  cs[i].ret = None =>
                      /\ i = n
                      /\ EndedIn(r, {UserLoadError})
                      /\ ~Invoked(r)
            /\ ~config.has_user_loader =>
                  /\ loads = {}
                  /\ ~EndedIn(r, {UserLoadError})

\* a configured loader returned null for a token that passed every check,
\* and the guard failed with UserLoadError
C9_Witness ==
    \E r \in Reqs :
        /\ config.has_user_loader
        /\ Passed(r, "verify_token_claims")
        /\ calls[r][Len(calls[r])].op = "user_loader"
        /\ calls[r][Len(calls[r])].ret = None
        /\ EndedIn(r, {UserLoadError})
        /\ ctx[r].jwt_user = None

(***************************************************************************)
(* C10: under the fresh guard, for a decoded, non-revoked access token and *)
(* the current time, FreshTokenRequired is raised exactly when the         *)
(* freshness claim is the boolean false or an integer timestamp strictly   *)
(* less than the current time; the boolean true and a timestamp greater    *)
(* than or equal to the current time pass, whatever the expiry claim.      *)
(***************************************************************************)
C10_FreshnessTest ==
    \A r \in Reqs :
        \A i \in 1..Len(calls[r]) :
            calls[r][i].op = "fresh" =>
                LET fresh == frame[r].decoded_token.fresh
                    now == frame[r].now
                    stale == \/ fresh.isbool /\ fresh.b = FALSE
                             \/ ~fresh.isbool /\ fresh.n < now
                IN  /\ request[r].view.policy = "fresh"
                    /\ frame[r].decoded_token.type = "access"
                    /\ Passed(r, "verify_token_not_blacklisted")
                    /\ stale <=> calls[r][i].raised = FreshTokenRequired
                    /\ stale <=> EndedIn(r, {FreshTokenRequired})

\* a token whose freshness timestamp is the current time, and whose expiry
\* claim is in the past, passed the fresh guard
C10_Witness ==
    \E r \in Reqs :
        /\ Passed(r, "fresh")
        /\ ~frame[r].decoded_token.fresh.isbool
        /\ frame[r].now > 0
        /\ frame[r].decoded_token.fresh.n = frame[r].now
        /\ frame[r].decoded_token.exp < frame[r].now
        /\ handler[r].state = "returned"

\* the token type the guard of request r is said to expect
SaidExpectedType(r) ==
    IF request[r].view.policy = "refresh" THEN "refresh" ELSE "access"

\* calls[r] has an entry for op, whatever it raised
Called(r, op) == \E i \in 1..Len(calls[r]) : calls[r][i].op = op

(***************************************************************************)
(* C11: for every guard, a successfully decoded token whose type claim     *)
(* differs from the type the guard expects ("refresh" for the refresh      *)
(* guard, "access" for the other three) is rejected with                   *)
(* InvalidTokenTypeError before the revocation capability is consulted and *)
(* before anything is written to the request context, and the handler is   *)
(* not invoked; a token of the expected type is not rejected so.           *)
(***************************************************************************)
C11_WrongTypeRejectedFirst ==
    \A r \in Reqs :
        LET token == frame[r].decoded_token
            n == Len(calls[r])
        IN  /\ (token # NoClaims /\ token.type # SaidExpectedType(r)) =>
                  /\ pc[r] \in {"verify_type", "raised"}
                  /\ pc[r] = "raised" =>
                        /\ exc[r].kind = InvalidTokenTypeError
                        /\ calls[r][n] = Did("verify_token_type", InvalidTokenTypeError)
                  /\ ~Called(r, "verify_token_not_blacklisted")
                  /\ ctx[r] = NewCtx
                  /\ ~Invoked(r)
            /\ (token # NoClaims /\ token.type = SaidExpectedType(r)) =>
                  /\ ~EndedIn(r, {InvalidTokenTypeError})
                  /\ pc[r] # "verify_type" => Passed(r, "verify_token_type")

\* the refresh guard turned down a decoded access token: the revocation
\* capability was not called and the request context is empty
C11_Witness ==
    \E r \in Reqs :
        /\ request[r].view.policy = "refresh"
        /\ frame[r].decoded_token.type = "access"
        /\ frame[r].decoded_token.jti \in GoodTokens
        /\ EndedIn(r, {InvalidTokenTypeError})
        /\ ~Called(r, "verify_token_not_blacklisted")
        /\ ctx[r] = NewCtx

\* the strings of strs with sep between each two, built from the last one back
RECURSIVE SeparatedBy(_, _)
SeparatedBy(strs, sep) ==
    IF Len(strs) = 1 THEN strs[1]
    ELSE SeparatedBy(SubSeq(strs, 1, Len(strs) - 1), sep) \o sep \o strs[Len(strs)]

\* every configured source of request r fails with NoAuthorizationError
NoSourceHoldsAToken(r) ==
    \A i \in 1..Len(config.token_location) :
        Extracted(r, config.token_location[i]).kind = NoAuthorizationError

\* the message the locator is said to raise then
SaidNotFoundMessage(r) ==
    LET locs == config.token_location
        n == Len(locs)
        details == [i \in 1..n |-> Extracted(r, locs[i]).msg]
    IN  IF n = 1 THEN details[1]
        ELSE "Missing JWT in " \o SeparatedBy(SubSeq(locs, 1, n - 1), ", ")
                \o " or " \o locs[n] \o " (" \o SeparatedBy(details, "; ") \o ")"

(***************************************************************************)
(* C12: when every configured source fails with NoAuthorizationError the   *)
(* locator raises NoAuthorizationError, and whenever it raises it the      *)
(* message is: for exactly one configured source, that source's own error  *)
(* message verbatim; for two or more, "Missing JWT in <all but the last    *)
(* source joined by ', '> or <last source> (<details>)", the details being *)
(* the error messages of all configured sources, in configured order,      *)
(* joined by '; '.                                                         *)
(***************************************************************************)
C12_NotFoundMessageFormat ==
    \A r \in Reqs :
        /\ (NoSourceHoldsAToken(r) /\ NonExemptRequest(r)) =>
              /\ pc[r] \notin {"start", "locate"} => Called(r, "not_found")
              /\ request[r].view.policy # "optional" =>
                    pc[r] \in {"start", "locate", "raised"}
        /\ Called(r, "not_found") =>
              /\ NoSourceHoldsAToken(r)
              /\ frame[r].errors =
                    [i \in 1..Len(config.token_location) |->
                        Extracted(r, config.token_location[i]).msg]
              /\ IF request[r].view.policy = "optional"
                 THEN frame[r].caught = NoAuthorizationError
                 ELSE exc[r] = Exc(NoAuthorizationError, SaidNotFoundMessage(r))
        /\ EndedIn(r, {NoAuthorizationError}) =>
              exc[r].msg = SaidNotFoundMessage(r)

\* headers and cookies are configured, neither holds a token, and the
\* guard raised the composed message
C12_Witness ==
    \E r \in Reqs :
        /\ config.token_location = <<"headers", "cookies">>
        /\ request[r].view.policy = "required"
        /\ exc[r] = Exc(NoAuthorizationError,
                "Missing JWT in headers or cookies (Missing Authorization Header; "
                    \o "Missing cookie \"access_token_cookie\")")

\* a cookie, header or form value that is missing or empty
Absent(v) == v \in {None, ""}

\* what the cookie source is said to give for request r: the error raised,
\* or "ok" with the candidate and its CSRF side-value
SaidFromCookies(r) ==
    LET t == SaidExpectedType(r)
        cookie == request[r].cookies[CookieNames[t]]
        header == request[r].headers[CsrfHeaderNames[t]]
        field == request[r].form[CsrfFieldNames[t]]
        applies == config.csrf_protect /\ request[r].method \in config.csrf_request_methods
    IN  IF Absent(cookie)
        THEN [kind |-> NoAuthorizationError, token |-> None, csrf |-> None]
        ELSE IF ~applies
        THEN [kind |-> "ok", token |-> cookie, csrf |-> None]
        ELSE IF ~Absent(header)
        THEN [kind |-> "ok", token |-> cookie, csrf |-> header]
        ELSE IF config.csrf_check_form /\ ~Absent(field)
        THEN [kind |-> "ok", token |-> cookie, csrf |-> field]
        ELSE [kind |-> CSRFError, token |-> None, csrf |-> None]

(***************************************************************************)
(* C13: the cookie source, for every request and configuration: a missing  *)
(* or empty token cookie raises NoAuthorizationError before any CSRF       *)
(* check; otherwise, if CSRF protection is enabled and the method is in    *)
(* the CSRF-protected set, the side-value is the configured CSRF header's, *)
(* or the configured form field's only when the header's is missing or     *)
(* empty and form fallback is enabled, and CSRFError is raised when        *)
(* neither yields a value; if CSRF protection does not apply the candidate *)
(* is returned with no side-value and no error.  The access and refresh    *)
(* request types use their own cookie, header and field names.  The guard  *)
(* that reads the source gets that result: the error, or the candidate     *)
(* passed on to decode_token with that side-value.                         *)
(***************************************************************************)
C13_CookieSource ==
    \A r \in Reqs :
        LET got == Extracted(r, "cookies")
            said == SaidFromCookies(r)
            cs == calls[r]
        IN  /\ got.kind = said.kind /\ got.token = said.token /\ got.csrf = said.csrf
            /\ got.kind \in {"ok", NoAuthorizationError, CSRFError}
            /\ Called(r, "cookies") =>
                  /\ cs[1] = Did("cookies", IF said.kind = "ok" THEN None ELSE said.kind)
                  /\ said.kind = "ok" =>
                        (Len(cs) >= 2 /\ cs[2].op = "decode_token"
                            /\ cs[2].raised = (IF said.token \notin GoodTokens THEN DecodeError
                                               ELSE IF said.csrf \notin {None, CsrfValue}
                                               THEN CSRFError ELSE None))
                  /\ said.kind = CSRFError =>
                        (EndedIn(r, {CSRFError}) /\ Len(cs) = 1 /\ ctx[r] = NewCtx)

\* a POST with the refresh cookie and an empty CSRF header, form fallback
\* on: the side-value came from the refresh form field, the access names
\* being set to other values, and the handler ran
C13_Witness ==
    \E r \in Reqs :
        /\ request[r].view.policy = "refresh"
        /\ request[r].method = "POST"
        /\ config.csrf_protect /\ config.csrf_check_form
        /\ request[r].headers[CsrfHeaderNames.refresh] = ""
        /\ request[r].headers[CsrfHeaderNames.access] = "csrf-of-other"
        /\ request[r].cookies[CookieNames.access] = "tokCA"
        /\ request[r].form[CsrfFieldNames.refresh] = CsrfValue
        /\ Extracted(r, "cookies") = Found("tokCR", CsrfValue)
        /\ Passed(r, "decode_token")
        /\ ctx[r].jwt.jti = "tokCR"
        /\ handler[r].state = "returned"

\* the fields of the Authorization header of request r whose first
\* whitespace-separated token is the configured type
MatchingFields(r) ==
    LET fields == request[r].headers[HeaderName]
    IN  {i \in 1..Len(fields) :
            Len(fields[i]) >= 1 /\ fields[i][1] = config.header_type}

(***************************************************************************)
(* C14, as claimed: header source with a header type configured, for every *)
(* present header value read as a comma-delimited list of fields: a token  *)
(* is returned only when exactly one field has the configured type as its  *)
(* first whitespace-separated token and that field consists of exactly two *)
(* tokens, the second being the returned token; every other present header *)
(* value (no matching field, two or more matching fields, a matching field *)
(* of one or three tokens, an empty field) raises InvalidHeaderError and   *)
(* no other kind of error.                                                 *)
(***************************************************************************)
C14_AsClaimed ==
    \A r \in Reqs :
        LET fields == request[r].headers[HeaderName]
            matching == MatchingFields(r)
            wellformed == /\ Cardinality(matching) = 1
                          /\ \A i \in matching : Len(fields[i]) = 2
        IN  (config.header_type # "" /\ fields # NoHeader /\ Called(r, "headers")) =>
               /\ calls[r][1].raised = (IF wellformed THEN None ELSE InvalidHeaderError)
               /\ wellformed =>
                     /\ Len(calls[r]) >= 2 /\ calls[r][2].op = "decode_token"
                     /\ \A i \in matching :
                           frame[r].decoded_token # NoClaims =>
                               frame[r].decoded_token.jti = fields[i][2]

\* the token request r itself carries, None if it carries none
OwnToken(r) ==
    LET h == request[r].headers[HeaderName]
    IN  IF h = NoHeader THEN None ELSE h[1][2]

\* the context the guard of request r has published so far, from what that
\* guard itself decoded and loaded
PublishedByOwnGuard(r) ==
    LET bound == Passed(r, "verify_token_not_blacklisted")
                    /\ pc[r] \notin {"await_blacklist", "publish"}
        loaded == {i \in 1..Len(calls[r]) :
                      calls[r][i].op = "user_loader" /\ calls[r][i].raised = None}
    IN  [ jwt |-> IF bound THEN frame[r].decoded_token ELSE NoClaims,
          jwt_header |-> IF bound THEN frame[r].jwt_header ELSE NoJwtHeader,
          jwt_user |-> IF loaded = {} THEN None
                       ELSE calls[r][CHOOSE i \in loaded : TRUE].ret ]

(***************************************************************************)
(* C15: with two or more requests in flight whose guard runs and handlers  *)
(* interleave at the suspension points (the awaited revocation check       *)
(* inside the guard, the awaited handler of the async_ decorators), the    *)
(* claims, header metadata and principal a request's handler reads from    *)
(* the request context are the ones its own guard published, from the      *)
(* token the request itself carries: no guard run writes into, and no      *)
(* handler reads from, the context of another request, and a published     *)
(* context is not overwritten afterwards.                                  *)
(***************************************************************************)
C15_ContextIsTheRequestsOwn ==
    \A r \in Reqs :
        /\ ctx[r] = PublishedByOwnGuard(r)
        /\ ctx[r].jwt # NoClaims =>
              /\ ctx[r].jwt.jti = OwnToken(r)
              /\ ctx[r].jwt_header.of = OwnToken(r)
        /\ ctx[r].jwt_user # None => ctx[r].jwt_user = "user-id-" \o OwnToken(r)
        /\ Invoked(r) => handler[r].saw = ctx[r]
        /\ OwnToken(r) = None => ctx[r] = NewCtx

\* two requests with different tokens: the handler of the first runs on its
\* own claims and principal while the second, whose guard was suspended in
\* the revocation check when the first published, runs on its own
C15_Witness ==
    /\ Cardinality(Reqs) >= 2
    /\ pc[1] = "await_fn" /\ pc[2] = "await_fn"
    /\ handler[1].saw.jwt.jti = "tokH" /\ handler[1].saw.jwt_user = "user-id-tokH"
    /\ handler[2].saw.jwt.jti = "tokQ" /\ handler[2].saw.jwt_user = "user-id-tokQ"
    /\ ctx[1] # ctx[2]

\* the guard of request r was cancelled at its suspension point
GuardCancelled(r) ==
    \E i \in 1..Len(calls[r]) :
        calls[r][i] = Did("verify_token_not_blacklisted", CancelledError)

(***************************************************************************)
(* C16: if the host cancels a request at a suspension point before its     *)
(* guard has completed, the guard run stops there: nothing of the          *)
(* request's claims, header metadata or principal has been or is later     *)
(* written to the request context, and the handler is never invoked.       *)
(***************************************************************************)
C16_CancelledGuardPublishesNothing ==
    \A r \in Reqs :
        /\ pc[r] = "await_blacklist" => (ctx[r] = NewCtx /\ ~Invoked(r))
        /\ GuardCancelled(r) =>
              /\ calls[r][Len(calls[r])].op = "verify_token_not_blacklisted"
              /\ EndedIn(r, {CancelledError})
              /\ ctx[r] = NewCtx
              /\ ~Invoked(r)

\* the guard of a request with a decoded token of the right type was
\* cancelled in the revocation check, while another request went on to
\* publish its own context
C16_Witness ==
    \E r \in Reqs :
        /\ GuardCancelled(r)
        /\ frame[r].decoded_token.type = SaidExpectedType(r)
        /\ ctx[r] = NewCtx
        /\ \E q \in Reqs \ {r} : ctx[q].jwt_user # None

\* the stages the guard of request r has run on its candidate, in order:
\* the collaborators called and the checks made, the reads left out
RECURSIVE StagesIn(_)
StagesIn(cs) ==
    IF cs = <<>> THEN <<>>
    ELSE (IF IsRead(cs[1]) \/ cs[1].op \in {"fn", "not_found"} THEN <<>>
          ELSE <<cs[1].op>>) \o StagesIn(Tail(cs))

\* s is the beginning of t
IsPrefix(s, t) == Len(s) <= Len(t) /\ s = SubSeq(t, 1, Len(s))

\* the guard of request r returned after a token was decoded for it
Accepted(r) == GuardReturned(r) /\ frame[r].decoded_token # NoClaims

(***************************************************************************)
(* C17, as claimed: the refresh guard runs the same pipeline as the        *)
(* required-access guard except that it expects token type "refresh" and   *)
(* does not evaluate freshness: under either guard a token is accepted     *)
(* only after the structural-claims validators have passed it, so a        *)
(* refresh token they reject makes the refresh guard fail with             *)
(* UserClaimsVerificationError and the handler is not invoked.             *)
(***************************************************************************)
C17_AsClaimed ==
    \A r \in Reqs :
        (request[r].view.policy \in {"required", "refresh"} /\ Accepted(r)) =>
            Passed(r, "verify_token_claims")

(***************************************************************************)
(* C17, amended: the refresh guard runs the same pipeline as the           *)
(* required-access guard except that it expects token type "refresh" and   *)
(* does not run the structural-claims validators (neither guard evaluates  *)
(* freshness): apart from those differences the two guards apply the same  *)
(* stages in the same order (decode, type check, revocation check,         *)
(* identity load), so the refresh guard never fails with                   *)
(* UserClaimsVerificationError, and a refresh token goes from the          *)
(* revocation check to the identity load with verify_token_claims not      *)
(* called.                                                                 *)
(***************************************************************************)
C17_RefreshSkipsClaimsCheck ==
    \A r \in Reqs :
        LET policy == request[r].view.policy
            common == <<"decode_token", "verify_token_type",
                        "verify_token_not_blacklisted">>
            load == IF config.has_user_loader THEN <<"user_loader">> ELSE <<>>
            stages == IF policy = "refresh" THEN common \o load
                      ELSE common \o <<"verify_token_claims">> \o load
        IN  policy \in {"required", "refresh"} =>
               /\ IsPrefix(StagesIn(calls[r]), stages)
               /\ Accepted(r) =>
                     /\ StagesIn(calls[r]) = stages
                     /\ frame[r].decoded_token.type = SaidExpectedType(r)
                     /\ ctx[r].jwt = frame[r].decoded_token
               /\ \A i \in 1..Len(calls[r]) :
                     (Fails(calls[r][i]) /\ calls[r][i].op # "verify_token_claims") =>
                         (i = Len(calls[r]) /\ EndedIn(r, {calls[r][i].raised}))
               /\ policy = "refresh" =>
                     /\ ~Called(r, "verify_token_claims")
                     /\ ~EndedIn(r, {UserClaimsVerificationError})
               /\ (policy = "required" /\ (Called(r, "user_loader") \/ Accepted(r))) =>
                     Passed(r, "verify_token_claims")

\* the refresh guard accepted a refresh token and its handler returned, the
\* structural-claims validators never called
C17_Witness ==
    \E r \in Reqs :
        /\ request[r].view.policy = "refresh"
        /\ config.has_user_loader
        /\ frame[r].decoded_token.type = "refresh"
        /\ StagesIn(calls[r]) = <<"decode_token", "verify_token_type",
                                  "verify_token_not_blacklisted", "user_loader">>
        /\ ctx[r].jwt_user # None
        /\ handler[r].state = "returned"

\* every stage but the freshness test that the guard of request r applies
\* to a token has passed it
PassedAllButFreshness(r) ==
    /\ Passed(r, "decode_token")
    /\ Passed(r, "verify_token_type")
    /\ Passed(r, "verify_token_not_blacklisted")
    /\ pc[r] \notin {"await_blacklist", "publish", "claims", "load_user"}
    /\ ~Called(r, "verify_token_claims") \/ Passed(r, "verify_token_claims")
    /\ \A i \in 1..Len(calls[r]) :
          calls[r][i].op = "user_loader" => calls[r][i].ret # None

(***************************************************************************)
(* C18: the freshness claim is evaluated only by the fresh guard: under    *)
(* the required-access, optional and refresh guards the freshness test is  *)
(* never made, the clock never read and FreshTokenRequired never raised,   *)
(* so the outcome of the guard run (success, or which error) and the       *)
(* request context are those the other stages decide, whatever the token's *)
(* freshness claim: a token of the expected type whose freshness claim is  *)
(* false or a past timestamp is accepted.                                  *)
(***************************************************************************)
C18_FreshnessOnlyUnderFreshGuard ==
    \A r \in Reqs :
        LET cs == calls[r]
            n == Len(cs)
            token == frame[r].decoded_token
        IN  /\ Called(r, "fresh") => request[r].view.policy = "fresh"
            /\ request[r].view.policy # "fresh" =>
                  /\ pc[r] # "fresh"
                  /\ frame[r].now = NewFrame.now
                  /\ ~EndedIn(r, {FreshTokenRequired})
                  /\ frame[r].caught # FreshTokenRequired
                  /\ pc[r] = "raised" =>
                        (n >= 1 /\ Fails(cs[n]) /\ exc[r].kind = cs[n].raised)
                  /\ PassedAllButFreshness(r) =>
                        /\ GuardReturned(r)
                        /\ ctx[r].jwt = token
                        /\ ctx[r].jwt_header = frame[r].jwt_header
                        /\ token.type = SaidExpectedType(r)

\* the required guard accepted an access token whose freshness claim is
\* false, and the handler returned
C18_Witness ==
    \E r \in Reqs :
        /\ request[r].view.policy = "required"
        /\ frame[r].decoded_token.type = "access"
        /\ frame[r].decoded_token.fresh = FreshBool(FALSE)
        /\ ctx[r].jwt.fresh = FreshBool(FALSE)
        /\ Passed(r, "verify_token_claims")
        /\ handler[r].state = "returned"

\* the identities the identity loader of request r was called with and
\* returned a user for: a user is the user of one identity
LoadedIdentities(r) ==
    { identity \in {"id-" \o t : t \in Tokens} :
        \E i \in 1..Len(calls[r]) :
            /\ calls[r][i].op = "user_loader"
            /\ calls[r][i].ret = "user-" \o identity }

(***************************************************************************)
(* C19: in every reachable state of a guard run, the request context holds *)
(* decoded claims if and only if it holds the token's header metadata      *)
(* (both are published in the same step, from the same token), and it      *)
(* holds a principal only if it also holds claims whose identity claim is  *)
(* the value that was passed to the identity loader.                       *)
(***************************************************************************)
C19_ContextIsConsistent ==
    \A r \in Reqs :
        /\ ctx[r].jwt # NoClaims <=> ctx[r].jwt_header # NoJwtHeader
        /\ ctx[r].jwt # NoClaims =>
              /\ ctx[r].jwt_header = get_unverified_jwt_headers(ctx[r].jwt.jti)
              /\ ctx[r].jwt = frame[r].decoded_token
        /\ ctx[r].jwt_user # None =>
              /\ ctx[r].jwt # NoClaims
              /\ LoadedIdentities(r) = {ctx[r].jwt.identity}
              /\ ctx[r].jwt_user = "user-" \o ctx[r].jwt.identity
        /\ Invoked(r) =>
              /\ handler[r].saw.jwt # NoClaims <=> handler[r].saw.jwt_header # NoJwtHeader
              /\ handler[r].saw.jwt_user # None => handler[r].saw.jwt # NoClaims

\* the context holds the claims and the header metadata of the cookie's
\* token and the principal loaded for its identity, the handler running
C19_Witness ==
    \E r \in Reqs :
        /\ ctx[r].jwt.jti = "tokCA"
        /\ ctx[r].jwt_header.of = "tokCA"
        /\ ctx[r].jwt.identity = "id-tokCA"
        /\ ctx[r].jwt_user = "user-id-tokCA"
        /\ handler[r].state = "running"

====
